---- MODULE Spec2Model ----
(***************************************************************************)
(* A model of bot.py: one run of main() fetches the AMeDAS station table,  *)
(* picks the station nearest to (LAT, LON), fetches its latest reading,    *)
(* loads the element labels, builds the report and posts it to Slack and   *)
(* LINE.                                                                   *)
(*                                                                         *)
(* Conventions of the model                                                *)
(*  - Angles are whole arc-minutes (degrees*60 + minutes), so the code's   *)
(*    v["lat"][0] + v["lat"][1]/60 is deg*60 + min here.                   *)
(*  - Distances are whole millimetres; round() brings them to metres.      *)
(*  - Python text is ASCII here: the Japanese literals of bot.py are       *)
(*    romanised (kion for the label of temp, degC for its unit, ...).      *)
(*  - A Python dict is a sequence of entries in insertion order with       *)
(*    distinct keys, which is the order .items() and .keys() iterate in.   *)
(*  - An uncaught exception ends the run: pc = "failed", err = its class.  *)
(***************************************************************************)
EXTENDS Integers, Sequences, FiniteSets, TLC

VARIABLES
    pc,             \* position of main(): the next call it makes
    err,            \* class of the exception that ended the run, or "none"
    SLACK_WEBHOOK,  \* module global, read once from the environment
    LINE_TOKEN,     \* module global, read once from the environment
    LAT,            \* target latitude (arc-minutes)
    LON,            \* target longitude (arc-minutes)
    http,           \* the requests issued so far, with what came back
    meta,           \* nearest_amedas: the station table as parsed
    st,             \* main: the resolved station
    js,             \* latest_point_json: the point file as parsed
    tkey,           \* main: timestamp key of the reading
    row,            \* main: the raw reading
    url,            \* latest_point_json: the parts of the point file's URL
    sel,            \* load_elem_labels: the selector document as parsed
    labels,         \* main: element key -> display name
    vals,           \* main: the flattened reading
    lines           \* main: the lines of the report

vars == <<pc, err, SLACK_WEBHOOK, LINE_TOKEN, LAT, LON, http, meta, st, url,
          js, tkey, row, sel, labels, vals, lines>>

----------------------------------------------------------------------------
(* Bounds of the model *)

MaxStations == 3    \* entries of a station table (resolver runs)
MaxKeys == 3        \* element keys of a raw reading (report runs)
MaxBlocks == 1      \* blocks of a selector document (label runs)
MaxItems == 1       \* items of a block's "values" list (label runs)

----------------------------------------------------------------------------
(* Generic helpers *)

Abs(x) == IF x < 0 THEN -x ELSE x

Range(s) == {s[i] : i \in DOMAIN s}

\* Sequences over S of length at most n
SeqsUpTo(S, n) == UNION {[1..k -> S] : k \in 0..n}

----------------------------------------------------------------------------
(* Python values of a reading: None, int, float, str, and lists of them.  *)
(* A float is held in tenths (21.5 is n = 215).                           *)

Elem(t, n, s) == [t |-> t, n |-> n, s |-> s]

\* A value that is not a list
Scalar(e) == [t |-> e.t, n |-> e.n, s |-> e.s, elems |-> <<>>]

\* A list value [e1, e2, ...]
List(es) == [t |-> "list", n |-> 0, s |-> "", elems |-> es]

None == Scalar(Elem("none", 0, ""))

----------------------------------------------------------------------------
(* HTTP: what a requests.get / requests.post call can come back with *)

\* requests raises these when no response arrives within timeout=20
TransportExceptions == {"Timeout", "ConnectionError"}

\* status codes a server answers with; the code never reads them
Statuses == {200, 404}

Raised(e) == [exc |-> e, status |-> 0, parses |-> FALSE, doc |-> <<>>]

Answered(s, p, d) == [exc |-> "none", status |-> s, parses |-> p, doc |-> d]

\* Every outcome of a GET whose body, when it parses, is one of Docs
GetResponses(Docs) ==
    {Raised(e) : e \in TransportExceptions}
    \cup {Answered(s, FALSE, <<>>) : s \in Statuses}
    \cup {Answered(s, TRUE, d) : s \in Statuses, d \in Docs}

\* requests.get(url, timeout=20).json(): the exception it raises, or "none"
JsonExc(r) ==
    IF r.exc # "none" THEN r.exc
    ELSE IF ~r.parses THEN "JSONDecodeError"
    ELSE "none"

\* One entry of the request log: the endpoint, what was sent (the URL parts
\* of a GET, the text of a POST) and what came back
Logged(req, arg, r) == [req |-> req, arg |-> arg, exc |-> r.exc,
                        status |-> r.status, parses |-> r.parses]

----------------------------------------------------------------------------
(* haversine and nearest_amedas *)

\* R * (pi/180) / 60 with R = 6371000.0 m, in millimetres: the length of
\* one arc-minute of a great circle
MmPerArcMinute == 1853249

\* haversine(lat1, lon1, lat2, lon2) for two points of one meridian, where
\* a = sin(dphi/2)^2 and 2*R*atan2(sqrt(a), sqrt(1-a)) = R*|dphi|.
\* The station tables of the model keep every station on the target's
\* meridian.
haversine(lat1, lon1, lat2, lon2) == MmPerArcMinute * Abs(lat2 - lat1)

\* round(x) of a length in millimetres, in metres (half to even)
round(mm) ==
    LET q == mm \div 1000
        r == mm % 1000
    IN  IF r < 500 THEN q
        ELSE IF r > 500 THEN q + 1
        ELSE IF q % 2 = 0 THEN q ELSE q + 1

\* v["lat"][0] + v["lat"][1]/60
DegMin(p) == p[1] * 60 + p[2]

\* v.get("kjName", "")
KjName(v) == IF v.hasKjName THEN v.kjName ELSE ""

\* The loop body with "d <= best[0]" for "d < best[0]"
ScanStepLe(best, e, lat, lon) ==
    LET plat == DegMin(e.lat)
        plon == DegMin(e.lon)
        d == haversine(lat, lon, plat, plon)
    IN  IF best = <<>> \/ d <= best[1]
        THEN <<d, e.sid, KjName(e), plat, plon>>
        ELSE best

\* The loop body of nearest_amedas: best after entry e (None is <<>>)
ScanStep(best, e, lat, lon) ==
    LET plat == DegMin(e.lat)
        plon == DegMin(e.lon)
        d == haversine(lat, lon, plat, plon)
    IN  IF best = <<>> \/ d < best[1]
        THEN <<d, e.sid, KjName(e), plat, plon>>
        ELSE best

\* for sid, v in meta.items(): ...   (best after the first i entries)
RECURSIVE Scan(_, _, _, _)
Scan(m, i, lat, lon) ==
    IF i = 0 THEN <<>>
    ELSE ScanStep(Scan(m, i - 1, lat, lon), m[i], lat, lon)

NoStation == [station_id |-> "", name |-> "", lat |-> 0, lon |-> 0,
              dist_m |-> 0]

\* The return statement guarded against best being None, giving an empty
\* result instead of raising
ReturnBestNull(best) ==
    IF best = <<>> THEN [exc |-> "none", value |-> NoStation]
    ELSE [exc |-> "none",
          value |-> [station_id |-> best[2], name |-> best[3],
                     lat |-> best[4], lon |-> best[5],
                     dist_m |-> round(best[1])]]

\* The return statement of nearest_amedas: best[1] of None is a TypeError
ReturnBest(best) ==
    IF best = <<>> THEN [exc |-> "TypeError", value |-> NoStation]
    ELSE [exc |-> "none",
          value |-> [station_id |-> best[2], name |-> best[3],
                     lat |-> best[4], lon |-> best[5],
                     dist_m |-> round(best[1])]]

\* nearest_amedas(lat, lon) when the GET of JMA_TABLE comes back with r
nearest_amedas(r, lat, lon) ==
    IF JsonExc(r) # "none" THEN [exc |-> JsonExc(r), value |-> NoStation]
    ELSE ReturnBest(Scan(r.doc, Len(r.doc), lat, lon))

----------------------------------------------------------------------------
(* Text: str comparison and f-string formatting *)

\* Lexicographic order of two sequences of numbers (Python's order of two
\* str values, taken code point by code point)
RECURSIVE LexLess(_, _)
LexLess(a, b) ==
    IF b = <<>> THEN FALSE
    ELSE IF a = <<>> THEN TRUE
    ELSE IF a[1] # b[1] THEN a[1] < b[1]
    ELSE LexLess(Tail(a), Tail(b))

\* The code points of the element keys the model's readings use
CodePoints ==
    [humidity |-> <<104, 117, 109, 105, 100, 105, 116, 121>>,
     temp |-> <<116, 101, 109, 112>>,
     wind |-> <<119, 105, 110, 100>>,
     windDirection |-> <<119, 105, 110, 100, 68, 105, 114, 101, 99, 116,
                         105, 111, 110>>]

\* k1 < k2 on two element keys
StrLess(k1, k2) == LexLess(CodePoints[k1], CodePoints[k2])

Digit == <<"0", "1", "2", "3", "4", "5", "6", "7", "8", "9">>

\* str(n) of an int
RECURSIVE IntStr(_)
IntStr(n) ==
    IF n < 0 THEN "-" \o IntStr(-n)
    ELSE IF n < 10 THEN Digit[n + 1]
    ELSE IntStr(n \div 10) \o Digit[(n % 10) + 1]

\* str(x) of a float held in tenths
FloatStr(n) ==
    IF n < 0 THEN "-" \o IntStr((-n) \div 10) \o "." \o Digit[((-n) % 10) + 1]
    ELSE IntStr(n \div 10) \o "." \o Digit[(n % 10) + 1]

\* repr(e) of a list element
ElemRepr(e) ==
    CASE e.t = "none" -> "None"
      [] e.t = "int" -> IntStr(e.n)
      [] e.t = "float" -> FloatStr(e.n)
      [] e.t = "str" -> "'" \o e.s \o "'"

RECURSIVE JoinRepr(_)
JoinRepr(es) ==
    IF es = <<>> THEN ""
    ELSE IF Len(es) = 1 THEN ElemRepr(es[1])
    ELSE ElemRepr(es[1]) \o ", " \o JoinRepr(Tail(es))

\* f"{val}"
Format(v) ==
    CASE v.t = "none" -> "None"
      [] v.t = "int" -> IntStr(v.n)
      [] v.t = "float" -> FloatStr(v.n)
      [] v.t = "str" -> v.s
      [] v.t = "list" -> "[" \o JoinRepr(v.elems) \o "]"

\* "".join of a sequence of decimal digits
RECURSIVE Digits(_)
Digits(ds) == IF ds = <<>> THEN "" ELSE Digit[ds[1] + 1] \o Digits(Tail(ds))

\* s[i:j] of a str held as a sequence (0-based, j exclusive, clipped)
Slice(s, i, j) ==
    LET hi == IF j < Len(s) THEN j ELSE Len(s)
    IN  IF i >= hi THEN <<>> ELSE SubSeq(s, i + 1, hi)

----------------------------------------------------------------------------
(* flatten_values *)

\* take(v): None stays None, a list gives its first element
take(v) ==
    IF v.t = "none" THEN None
    ELSE IF v.t = "list" THEN Scalar(v.elems[1])
    ELSE v

\* flatten_values with the None entries left out:
\* {k: take(v) for k, v in row.items() if v is not None}
flatten_values_dropping(r) ==
    SelectSeq([i \in DOMAIN r |-> [k |-> r[i].k, v |-> take(r[i].v)]],
              LAMBDA e : e.v # None)

\* {k: take(v) for k, v in row.items()}
flatten_values(r) == [i \in DOMAIN r |-> [k |-> r[i].k, v |-> take(r[i].v)]]

----------------------------------------------------------------------------
(* dict helpers on sequences of [k, v] entries *)

\* d.keys(), in insertion order
Keys(d) == [i \in DOMAIN d |-> d[i].k]

\* d[key]
Lookup(d, key) == (CHOOSE e \in Range(d) : e.k = key).v

\* sorted(xs) of distinct element keys: insertion sort by StrLess
RECURSIVE sorted(_)
sorted(xs) ==
    IF xs = <<>> THEN <<>>
    ELSE LET rest == sorted(Tail(xs))
             x == xs[1]
             lo == SelectSeq(rest, LAMBDA y : StrLess(y, x))
             hi == SelectSeq(rest, LAMBDA y : ~StrLess(y, x))
         IN  lo \o <<x>> \o hi

----------------------------------------------------------------------------
(* load_elem_labels *)

\* The selector document, as far as load_elem_labels looks into it:
\*   doc   = [shape, hasSelectors, selectorsIsList, blocks]
\*     shape "object": a JSON object; blocks are its "selectors" when that
\*                     is a list; selectorsIsList = FALSE is "selectors": null
\*     shape "array":  a JSON array, blocks are its elements
\*     shape "other":  a JSON string, number or null
\*   block = [isDict, key, values, items]
\*     values "absent": no "values" member; "null": "values": null;
\*            "list": items are its elements
\*   item  = [isDict, value, valueIsList, name, ja]
\*     "" stands for a member that is absent, null or the empty string
\*     (all of them falsy); valueIsList is "value": [...], a non-empty list

\* The setdefault calls, in order
Fallback ==
    << <<"temp", "kion">>,
       <<"humidity", "shitsudo">>,
       <<"wind", "fuusoku">>,
       <<"windDirection", "fuukou">>,
       <<"gust", "saidai-shunkan-fuusoku">>,
       <<"gustDirection", "saidai-shunkan-fuukou">>,
       <<"precipitation10m", "10-punkan-kousuiryou">>,
       <<"precipitation1h", "1-jikan-kousuiryou">>,
       <<"precipitation3h", "3-jikan-kousuiryou">>,
       <<"precipitation24h", "24-jikan-kousuiryou">>,
       <<"sunshine10m", "10-punkan-nisshou-jikan">>,
       <<"snowDepth", "sekisetsushin">>,
       <<"pressure", "genchi-kiatsu">>,
       <<"seaLevelPressure", "kaimen-kiatsu">>,
       <<"visibility", "shitei">> >>

EmptyMapping == [k \in {} |-> ""]

\* mapping.setdefault(k, v)
SetDefault(m, k, v) == IF k \in DOMAIN m THEN m ELSE m @@ (k :> v)

\* mapping[k] = v
SetItem(m, k, v) == (k :> v) @@ m

RECURSIVE SetDefaults(_, _)
SetDefaults(m, i) ==
    IF i > Len(Fallback) THEN m
    ELSE SetDefaults(SetDefault(m, Fallback[i][1], Fallback[i][2]), i + 1)

\* A loop state: the exception raised so far ("none" if none) and mapping
Carry(exc, m) == [exc |-> exc, value |-> m]

\* The body of "for item in block.get("values", [])"
ItemStep(c, item) ==
    IF c.exc # "none" THEN c
    ELSE IF ~item.isDict THEN Carry("AttributeError", c.value)  \* item.get
    ELSE IF item.valueIsList THEN Carry("TypeError", c.value)   \* unhashable
    ELSE LET val == item.value
             name == IF item.name # "" THEN item.name
                     ELSE IF item.ja # "" THEN item.ja
                     ELSE val
         IN  IF val # "" THEN Carry("none", SetItem(c.value, val, name)) ELSE c

RECURSIVE ItemLoop(_, _, _)
ItemLoop(c, items, i) ==
    IF i > Len(items) THEN c
    ELSE ItemLoop(ItemStep(c, items[i]), items, i + 1)

\* The body of "for block in blocks"
BlockStep(c, block) ==
    IF c.exc # "none" THEN c
    ELSE IF ~block.isDict THEN c                                \* continue
    ELSE IF block.key \notin {"elem", "elements"} THEN c
    ELSE IF block.values = "absent" THEN c                      \* get default []
    ELSE IF block.values = "null" THEN Carry("TypeError", c.value)
    ELSE ItemLoop(c, block.items, 1)

RECURSIVE BlockLoop(_, _, _)
BlockLoop(c, blocks, i) ==
    IF i > Len(blocks) THEN c
    ELSE BlockLoop(BlockStep(c, blocks[i]), blocks, i + 1)

\* load_elem_labels() when the GET of JMA_SELECTOR comes back with r
load_elem_labels(r) ==
    LET fetched == JsonExc(r) = "none"               \* else: sel = None
        d == r.doc
        c == IF ~fetched THEN Carry("none", EmptyMapping)
             ELSE IF d.shape = "object" /\ d.hasSelectors
             THEN IF d.selectorsIsList
                  THEN BlockLoop(Carry("none", EmptyMapping), d.blocks, 1)
                  ELSE Carry("TypeError", EmptyMapping) \* for block in None
             ELSE IF d.shape = "array"
             THEN BlockLoop(Carry("none", EmptyMapping), d.blocks, 1)
             ELSE Carry("none", EmptyMapping)
    IN  IF c.exc # "none" THEN c
        ELSE Carry("none", SetDefaults(c.value, 1))

----------------------------------------------------------------------------
(* latest_point_json *)

\* The latest_time.txt body: an ISO 8601 datetime (its date as 8 digits and
\* its hour), or text datetime.fromisoformat rejects
IsoTime(ymd, hour) == [iso |-> TRUE, ymd |-> ymd, hour |-> hour]

NotIsoTime == [iso |-> FALSE, ymd |-> <<>>, hour |-> 0]

\* Lines 39-43 when the GET of JMA_LATEST_TIME comes back with r: the
\* parts of the point file's URL (station id, ymd, h3)
PointUrl(r, station_id) ==
    IF r.exc # "none" THEN [exc |-> r.exc, value |-> <<>>]
    ELSE IF ~r.doc.iso THEN [exc |-> "ValueError", value |-> <<>>]
    ELSE [exc |-> "none",
          value |-> <<station_id, r.doc.ymd, (r.doc.hour \div 3) * 3>>]

\* max(js.keys()): the entry of js with the greatest key
RECURSIVE MaxEntry(_)
MaxEntry(d) ==
    IF Len(d) = 1 THEN d[1]
    ELSE LET m == MaxEntry(Tail(d))
         IN  IF LexLess(m.k, d[1].k) THEN d[1] ELSE m

\* Lines 44-47 when the GET of the point file comes back with r
LatestEntry(r) ==
    IF JsonExc(r) # "none" THEN [exc |-> JsonExc(r), value |-> <<>>]
    ELSE IF r.doc = <<>> THEN [exc |-> "ValueError", value |-> <<>>] \* max()
    ELSE [exc |-> "none", value |-> MaxEntry(r.doc)]

----------------------------------------------------------------------------
(* fmt_unit and the report of main *)

units ==
    [temp |-> "degC",
     humidity |-> "%",
     wind |-> "m/s",
     windDirection |-> "",
     precipitation10m |-> "mm/10m",
     precipitation1h |-> "mm/h",
     precipitation3h |-> "mm/3h",
     precipitation24h |-> "mm",
     snowDepth |-> "cm",
     sunshine10m |-> "min/10m"]

\* units.get(key, "") with a unit entered for the wind direction
fmt_unit_degrees(key) ==
    IF key = "windDirection" THEN "deg"
    ELSE IF key \in DOMAIN units THEN units[key] ELSE ""

\* units.get(key, "")
fmt_unit(key) == IF key \in DOMAIN units THEN units[key] ELSE ""

\* labels.get(key, key)
LabelOf(lbl, key) == IF key \in DOMAIN lbl THEN lbl[key] ELSE key

\* A line of the report.  key names the element a body line was appended
\* for ("" on the header and the attribution); it is not part of the text.
Line(kind, key, text) == [kind |-> kind, key |-> key, text |-> text]

\* Line 140
HeaderLine(tk, s) ==
    Line("header", "",
         "kansoku-sokuhou " \o Digits(Slice(tk, 8, 10)) \o ":"
         \o Digits(Slice(tk, 10, 12)) \o "(JST) / AMeDAS" \o s.name
         \o "(" \o IntStr(s.dist_m) \o "m-saki)")

\* Line 151
AttributionLine == Line("attribution", "", "shutten: Kishouchou AMeDAS (sokuhouchi)")

\* Lines 142-149 for one key
BodyLines(lbl, v, key) ==
    LET val == Lookup(v, key)
        name == LabelOf(lbl, key)
        unit == fmt_unit(key)
    IN  IF val = None THEN <<>>
        ELSE IF unit # ""
        THEN << Line("body", key, "- " \o name \o ": " \o Format(val) \o unit) >>
        ELSE << Line("body", key, "- " \o name \o ": " \o Format(val)) >>

RECURSIVE BodyLoop(_, _, _)
BodyLoop(lbl, v, ks) ==
    IF ks = <<>> THEN <<>>
    ELSE BodyLines(lbl, v, ks[1]) \o BodyLoop(lbl, v, Tail(ks))

\* for key in vals.keys(): the iteration order without sorted()
IterationOrderUnsorted(v) == Keys(v)

\* for key in sorted(vals.keys())
IterationOrder(v) == sorted(Keys(v))

\* Lines 140-151: the lines that "\n".join(lines) makes the message of
BuildLines(tk, s, lbl, v) ==
    <<HeaderLine(tk, s)>> \o BodyLoop(lbl, v, IterationOrder(v))
        \o <<AttributionLine>>

----------------------------------------------------------------------------
(* notify_slack and notify_line *)

\* os.getenv of a variable that is not set
EnvNone == "<None>"

\* "if not X: return" without the test: the request is always made
FalsyNever(x) == FALSE

\* "not X" of an optional environment string: None and "" are falsy
Falsy(x) == x = EnvNone \/ x = ""

\* Outcomes of a requests.post: the response is discarded
PostResponses ==
    {Raised(e) : e \in TransportExceptions}
    \cup {Answered(s, TRUE, <<>>) : s \in Statuses}

\* The slice limit of notify_line
LineLimit == 1900

\* len("\n".join(text))
RECURSIVE JoinedLen(_)
JoinedLen(text) ==
    IF text = <<>> THEN 0
    ELSE IF Len(text) = 1 THEN Len(text[1].text)
    ELSE Len(text[1].text) + 1 + JoinedLen(Tail(text))

\* text[:1900] of the joined lines.  A message within the limit is sent
\* whole; a longer one is cut, kept here as the lines that fit entirely
\* followed by a marker for the line the cut falls in.
RECURSIVE Truncated(_, _)
Truncated(text, room) ==
    IF text = <<>> THEN <<>>
    ELSE IF Len(text[1].text) <= room
    THEN <<text[1]>> \o Truncated(Tail(text), room - Len(text[1].text) - 1)
    ELSE << Line("cut", text[1].key, "") >>

First1900(text) ==
    IF JoinedLen(text) <= LineLimit THEN text ELSE Truncated(text, LineLimit)

----------------------------------------------------------------------------
(* The documents the servers of the model answer with *)

DefaultLAT == 2092      \* 34.8663494 degrees, in arc-minutes
DefaultLON == 8230      \* 137.1739931 degrees, in arc-minutes

\* One entry of amedastable.json: sid -> {"lat": [deg, min], "lon": [deg,
\* min], "kjName": ...}; the third station carries no kjName
Station(sid, lat) ==
    [sid |-> sid, lat |-> lat, lon |-> <<137, 10>>,
     hasKjName |-> sid # "51999",
     kjName |-> CASE sid = "51281" -> "Okazaki"
                  [] sid = "51311" -> "Gamagori"
                  [] OTHER -> ""]

StationIds == {"51281", "51311", "51999"}

StationLats == {<<34, 51>>, <<34, 52>>, <<34, 53>>}

Stations == {Station(sid, lat) : sid \in StationIds, lat \in StationLats}

\* A dict has one entry per key
DistinctSids(m) == \A i, j \in DOMAIN m : i # j => m[i].sid # m[j].sid

DistinctKeys(d) == \A i, j \in DOMAIN d : i # j => d[i].k # d[j].k

\* Every station table of at most n entries
Tables(n) == {m \in SeqsUpTo(Stations, n) : DistinctSids(m)}

\* The station tables the runs of main are checked with: empty, one
\* station, two stations at the same distance on either side of the target
RunTables ==
    { <<>>,
      << Station("51281", <<34, 53>>) >>,
      << Station("51311", <<34, 53>>), Station("51281", <<34, 51>>) >> }

TargetLats == {DefaultLAT, DefaultLAT + 1}

\* latest_time.txt
TimeTexts == {IsoTime(<<2, 0, 2, 5, 0, 9, 1, 7>>, 7), NotIsoTime}

TimeResponses ==
    {Raised(e) : e \in TransportExceptions}
    \cup {Answered(s, TRUE, d) : s \in Statuses, d \in TimeTexts}

\* Raw values of a reading
RawValues ==
    { None,
      Scalar(Elem("int", 0, "")),
      Scalar(Elem("int", 16, "")),
      Scalar(Elem("str", 0, "N/A")),
      List(<<Elem("float", 215, ""), Elem("int", 0, "")>>),
      List(<<Elem("int", 16, ""), Elem("int", 0, "")>>),
      List(<<Elem("none", 0, ""), Elem("none", 0, "")>>) }

ElementKeys == DOMAIN CodePoints

Entry(k, v) == [k |-> k, v |-> v]

\* Every raw reading of at most n element keys
Rows(n) ==
    {r \in SeqsUpTo({Entry(k, v) : k \in ElementKeys, v \in RawValues}, n) :
        DistinctKeys(r)}

T0710 == <<2, 0, 2, 5, 0, 9, 1, 7, 0, 7, 1, 0, 0, 0>>

T0700 == <<2, 0, 2, 5, 0, 9, 1, 7, 0, 7, 0, 0, 0, 0>>

RowA == << Entry("wind", List(<<Elem("float", 32, ""), Elem("int", 0, "")>>)),
           Entry("temp", List(<<Elem("float", 182, ""), Elem("int", 0, "")>>)),
           Entry("humidity", None) >>

RowB == << Entry("temp", List(<<Elem("float", 180, ""), Elem("int", 0, "")>>)) >>

\* The point files the runs of main are checked with
RunPointFiles ==
    { <<>>,
      << Entry(T0710, RowA) >>,
      << Entry(T0710, RowA), Entry(T0700, RowB) >> }

\* Selector documents
SelItem(isDict, value, valueIsList, name, ja) ==
    [isDict |-> isDict, value |-> value, valueIsList |-> valueIsList,
     name |-> name, ja |-> ja]

SelItems ==
    { SelItem(FALSE, "", FALSE, "", "") }
    \cup { SelItem(TRUE, "", TRUE, "", "") }
    \cup { SelItem(TRUE, v, FALSE, nj[1], nj[2]) :
             v \in {"", "temp", "dewPoint"},
             nj \in { <<"", "">>, <<"Temperature", "">>, <<"", "kion-ja">> } }

SelBlock(isDict, key, values, items) ==
    [isDict |-> isDict, key |-> key, values |-> values, items |-> items]

SelBlocks(n) ==
    { SelBlock(FALSE, "", "absent", <<>>) }
    \cup { SelBlock(TRUE, k, v, <<>>) :
             k \in {"elem", "elements", "area"}, v \in {"absent", "null"} }
    \cup { SelBlock(TRUE, k, "list", items) :
             k \in {"elem", "elements", "area"},
             items \in SeqsUpTo(SelItems, n) }

SelDoc(shape, hasSelectors, selectorsIsList, blocks) ==
    [shape |-> shape, hasSelectors |-> hasSelectors,
     selectorsIsList |-> selectorsIsList, blocks |-> blocks]

SelDocs(nb, ni) ==
    { SelDoc("other", FALSE, FALSE, <<>>),
      SelDoc("object", FALSE, FALSE, <<>>),
      SelDoc("object", TRUE, FALSE, <<>>) }
    \cup { SelDoc("object", TRUE, TRUE, bs) : bs \in SeqsUpTo(SelBlocks(ni), nb) }
    \cup { SelDoc("array", FALSE, FALSE, bs) : bs \in SeqsUpTo(SelBlocks(ni), nb) }

\* The selector documents the runs of main are checked with
RunSelDocs ==
    { SelDoc("other", FALSE, FALSE, <<>>),
      SelDoc("array", FALSE, FALSE,
             << SelBlock(TRUE, "elem", "list",
                         << SelItem(TRUE, "temp", FALSE, "Temperature", "") >>) >>),
      SelDoc("object", TRUE, TRUE,
             << SelBlock(TRUE, "elem", "list",
                         << SelItem(FALSE, "", FALSE, "", "") >>) >>) }

----------------------------------------------------------------------------
(* The run of main *)

Unset == <<>>

\* An uncaught exception of class e
Raise(e) == pc' = "failed" /\ err' = e

\* Line 134: st = nearest_amedas(LAT, LON)
NearestAmedas(Docs) ==
    /\ pc = "nearest"
    /\ \E r \in GetResponses(Docs) :
         LET res == nearest_amedas(r, LAT, LON)
         IN  /\ http' = Append(http, Logged("table", <<>>, r))
             /\ meta' = IF JsonExc(r) = "none" THEN r.doc ELSE meta
             /\ IF res.exc # "none"
                THEN Raise(res.exc) /\ st' = st
                ELSE pc' = "latest_time" /\ err' = err /\ st' = res.value
    /\ UNCHANGED <<SLACK_WEBHOOK, LINE_TOKEN, LAT, LON, url, js, tkey, row,
                   sel, labels, vals, lines>>

\* Line 135, first request of latest_point_json (lines 39-43)
LatestTime ==
    /\ pc = "latest_time"
    /\ \E r \in TimeResponses :
         LET res == PointUrl(r, st.station_id)
         IN  /\ http' = Append(http, Logged("latest_time", <<>>, r))
             /\ IF res.exc # "none"
                THEN Raise(res.exc) /\ url' = url
                ELSE pc' = "point" /\ err' = err /\ url' = res.value
    /\ UNCHANGED <<SLACK_WEBHOOK, LINE_TOKEN, LAT, LON, meta, st, js, tkey,
                   row, sel, labels, vals, lines>>

\* Line 135, second request of latest_point_json (lines 44-47)
LatestPoint(Docs) ==
    /\ pc = "point"
    /\ \E r \in GetResponses(Docs) :
         LET res == LatestEntry(r)
         IN  /\ http' = Append(http, Logged("point", url, r))
             /\ js' = IF JsonExc(r) = "none" THEN r.doc ELSE js
             /\ IF res.exc # "none"
                THEN Raise(res.exc) /\ tkey' = tkey /\ row' = row
                ELSE /\ pc' = "labels" /\ err' = err
                     /\ tkey' = res.value.k /\ row' = res.value.v
    /\ UNCHANGED <<SLACK_WEBHOOK, LINE_TOKEN, LAT, LON, meta, st, url, sel,
                   labels, vals, lines>>

\* Line 136: labels = load_elem_labels()
LoadElemLabels(Docs) ==
    /\ pc = "labels"
    /\ \E r \in GetResponses(Docs) :
         LET res == load_elem_labels(r)
         IN  /\ http' = Append(http, Logged("selector", <<>>, r))
             /\ sel' = IF JsonExc(r) = "none" THEN r.doc ELSE sel
             /\ IF res.exc # "none"
                THEN Raise(res.exc) /\ labels' = labels
                ELSE pc' = "flatten" /\ err' = err /\ labels' = res.value
    /\ UNCHANGED <<SLACK_WEBHOOK, LINE_TOKEN, LAT, LON, meta, st, url, js,
                   tkey, row, vals, lines>>

\* Line 137: vals = flatten_values(row)
FlattenValues ==
    /\ pc = "flatten"
    /\ vals' = flatten_values(row)
    /\ pc' = "build"
    /\ UNCHANGED <<err, SLACK_WEBHOOK, LINE_TOKEN, LAT, LON, http, meta, st,
                   url, js, tkey, row, sel, labels, lines>>

\* Lines 139-152: the report
BuildReport ==
    /\ pc = "build"
    /\ lines' = BuildLines(tkey, st, labels, vals)
    /\ pc' = "slack"
    /\ UNCHANGED <<err, SLACK_WEBHOOK, LINE_TOKEN, LAT, LON, http, meta, st,
                   url, js, tkey, row, sel, labels, vals>>

\* Line 155: notify_slack(msg)
NotifySlack ==
    /\ pc = "slack"
    /\ IF Falsy(SLACK_WEBHOOK)
       THEN pc' = "line" /\ UNCHANGED <<err, http>>
       ELSE \E r \in PostResponses :
              /\ http' = Append(http, Logged("slack", lines, r))
              /\ IF r.exc # "none"
                 THEN Raise(r.exc)
                 ELSE pc' = "line" /\ err' = err
    /\ UNCHANGED <<SLACK_WEBHOOK, LINE_TOKEN, LAT, LON, meta, st, url, js,
                   tkey, row, sel, labels, vals, lines>>

\* Line 156: notify_line(msg)
NotifyLine ==
    /\ pc = "line"
    /\ IF Falsy(LINE_TOKEN)
       THEN pc' = "done" /\ UNCHANGED <<err, http>>
       ELSE \E r \in PostResponses :
              /\ http' = Append(http, Logged("line", First1900(lines), r))
              /\ IF r.exc # "none"
                 THEN Raise(r.exc)
                 ELSE pc' = "done" /\ err' = err
    /\ UNCHANGED <<SLACK_WEBHOOK, LINE_TOKEN, LAT, LON, meta, st, url, js,
                   tkey, row, sel, labels, vals, lines>>

\* The locals of main before it assigns them
Fresh ==
    /\ err = "none"
    /\ http = <<>>
    /\ meta = Unset
    /\ st = NoStation
    /\ url = Unset
    /\ js = Unset
    /\ tkey = Unset
    /\ row = Unset
    /\ sel = Unset
    /\ labels = EmptyMapping
    /\ vals = Unset
    /\ lines = Unset

\* Module load: the globals are read from the environment
Init ==
    /\ pc = "nearest"
    /\ SLACK_WEBHOOK \in {EnvNone, "", "https://hooks.slack.com/services/T"}
    /\ LINE_TOKEN \in {EnvNone, "line-token"}
    /\ LAT = DefaultLAT
    /\ LON = DefaultLON
    /\ Fresh

Next ==
    \/ NearestAmedas(RunTables)
    \/ LatestTime
    \/ LatestPoint(RunPointFiles)
    \/ LoadElemLabels(RunSelDocs)
    \/ FlattenValues
    \/ BuildReport
    \/ NotifySlack
    \/ NotifyLine

Spec == Init /\ [][Next]_vars

----------------------------------------------------------------------------
(* Runs of one function over all its bounded inputs *)

\* The resolver alone: nearest_amedas on every station table of at most
\* MaxStations entries, for each target
InitNearest ==
    /\ pc = "nearest"
    /\ SLACK_WEBHOOK = EnvNone
    /\ LINE_TOKEN = EnvNone
    /\ LAT \in TargetLats
    /\ LON = DefaultLON
    /\ Fresh

NextNearest == NearestAmedas(Tables(MaxStations))

SpecNearest == InitNearest /\ [][NextNearest]_vars

\* What the requests of lines 134-135 came back with in the runs below
SampleTable == << Station("51281", <<34, 52>>) >>

SampleTime == IsoTime(<<2, 0, 2, 5, 0, 9, 1, 7>>, 7)

Ok(d) == Answered(200, TRUE, d)

\* main after line 135, having read reading r
AfterLine135(r) ==
    /\ SLACK_WEBHOOK = EnvNone
    /\ LINE_TOKEN = EnvNone
    /\ LAT = DefaultLAT
    /\ LON = DefaultLON
    /\ err = "none"
    /\ meta = SampleTable
    /\ st = nearest_amedas(Ok(SampleTable), DefaultLAT, DefaultLON).value
    /\ url = PointUrl(Ok(SampleTime), "51281").value
    /\ js = << Entry(T0710, r) >>
    /\ tkey = T0710
    /\ row = r
    /\ vals = Unset
    /\ lines = Unset

\* The label loader alone: load_elem_labels on every selector document of
\* at most MaxBlocks blocks of at most MaxItems items
InitLabels ==
    /\ pc = "labels"
    /\ AfterLine135(RowA)
    /\ http = << Logged("table", <<>>, Ok(SampleTable)),
                 Logged("latest_time", <<>>, Ok(SampleTime)),
                 Logged("point", url, Ok(js)) >>
    /\ sel = Unset
    /\ labels = EmptyMapping

NextLabels == LoadElemLabels(SelDocs(MaxBlocks, MaxItems))

SpecLabels == InitLabels /\ [][NextLabels]_vars

\* The selector responses of the report runs: a failed fetch, and a
\* document that names temp and windDirection
SampleSelector ==
    SelDoc("object", TRUE, TRUE,
           << SelBlock(TRUE, "elem", "list",
                       << SelItem(TRUE, "temp", FALSE, "Temperature", ""),
                          SelItem(TRUE, "windDirection", FALSE, "", "kazamuki") >>) >>)

SelectorResponses == {Raised("Timeout"), Ok(SampleSelector)}

\* Normaliser and formatter alone: lines 137-152 of main on every raw
\* reading of at most MaxKeys element keys
InitReport ==
    /\ pc = "flatten"
    /\ \E r \in Rows(MaxKeys) : AfterLine135(r)
    /\ \E sr \in SelectorResponses :
         /\ http = << Logged("table", <<>>, Ok(SampleTable)),
                      Logged("latest_time", <<>>, Ok(SampleTime)),
                      Logged("point", url, Ok(js)),
                      Logged("selector", <<>>, sr) >>
         /\ sel = IF JsonExc(sr) = "none" THEN sr.doc ELSE Unset
         /\ labels = load_elem_labels(sr).value

NextReport == FlattenValues \/ BuildReport

SpecReport == InitReport /\ [][NextReport]_vars

----------------------------------------------------------------------------
(* Vocabulary of the properties *)

\* The first request was the station table and its body parsed as JSON
TableParsed ==
    /\ http # <<>>
    /\ http[1].req = "table"
    /\ http[1].exc = "none"
    /\ http[1].parses

\* Distance from the target to entry j of the parsed table
Dist(j) == haversine(LAT, LON, DegMin(meta[j].lat), DegMin(meta[j].lon))

\* The requests that deliver the report
Posts == {i \in DOMAIN http : http[i].req \in {"slack", "line"}}

Attempted(endpoint) == \E i \in DOMAIN http : http[i].req = endpoint

\* A credential is configured when the environment gives a non-empty value
Configured(x) == x \notin {EnvNone, ""}

\* The run is over
Finished == pc \in {"done", "failed"}

\* The report has been built (line 152 was reached)
ReportBuilt == lines # Unset

\* A fetch that failed in transport: no response in time, a status outside
\* 2xx, or a body that is not JSON
TransportFailed(e) ==
    \/ e.exc # "none"
    \/ e.status \notin 200..299
    \/ ~e.parses

\* The exception classes of a failed request
TransportErrors == TransportExceptions \cup {"JSONDecodeError"}

\* The scalar a raw value carries: the first element of a pair, else itself
Carried(raw) == IF raw.t = "list" THEN Scalar(raw.elems[1]) ELSE raw

BodyIdx == {i \in DOMAIN lines : lines[i].kind = "body"}

\* The texts of the body lines appended for key k
TextsOf(k) == {lines[i].text : i \in {j \in BodyIdx : lines[j].key = k}}

----------------------------------------------------------------------------
(* C1 *)

\* C1: for every station table with at least one entry and every target,
\* nearest_amedas returns a station of the table whose distance to the
\* target is at most that of every other entry, and among the entries at
\* that minimum distance it is the earliest one in iteration order.
C1_NearestIsFirstMinimum ==
    (pc # "nearest" /\ TableParsed /\ Len(meta) >= 1) =>
        /\ pc = "latest_time"
        /\ err = "none"
        /\ \E i \in DOMAIN meta :
             /\ st.station_id = meta[i].sid
             /\ st.lat = DegMin(meta[i].lat)
             /\ \A j \in DOMAIN meta :
                  /\ Dist(i) <= Dist(j)
                  /\ (Dist(j) = Dist(i) => i <= j)

\* A table of two stations at the same distance was resolved to the first
C1_Witness ==
    /\ pc = "latest_time"
    /\ TableParsed
    /\ Len(meta) >= 2
    /\ Dist(1) = Dist(2)
    /\ meta[1].lat # meta[2].lat
    /\ st.station_id = meta[1].sid

----------------------------------------------------------------------------
(* C2 *)

\* vals maps key k to x
MapsTo(k, x) == \E j \in DOMAIN vals : vals[j].k = k /\ vals[j].v = x

\* C2 as stated: the output of flatten_values has no key whose raw value is
\* null, maps a key whose raw value is a [value, flag] pair to the pair's
\* first element and a key whose raw value is a scalar to that scalar.
C2_NullKeysDropped ==
    pc # "flatten" =>
        \A i \in DOMAIN row :
            /\ row[i].v = None => ~ \E j \in DOMAIN vals : vals[j].k = row[i].k
            /\ row[i].v.t = "list" => MapsTo(row[i].k, Scalar(row[i].v.elems[1]))
            /\ (row[i].v.t \notin {"list", "none"}) => MapsTo(row[i].k, row[i].v)

\* C2 as amended: the output of flatten_values has exactly the keys of the
\* raw reading, in the same order; a key whose raw value is null is kept
\* and maps to null, a key whose raw value is a [value, flag] pair maps to
\* the pair's first element, a key whose raw value is a scalar maps to that
\* scalar unchanged.
C2_NullKeysKept ==
    pc # "flatten" =>
        /\ Len(vals) = Len(row)
        /\ \A i \in DOMAIN row :
             /\ vals[i].k = row[i].k
             /\ row[i].v = None => vals[i].v = None
             /\ row[i].v.t = "list" => vals[i].v = Scalar(row[i].v.elems[1])
             /\ (row[i].v.t \notin {"list", "none"}) => vals[i].v = row[i].v

\* {"temp": [21.5, 0], "humidity": null} was flattened to
\* {"temp": 21.5, "humidity": None}
C2_Witness ==
    /\ pc # "flatten"
    /\ row = << Entry("temp", List(<<Elem("float", 215, ""), Elem("int", 0, "")>>)),
                Entry("humidity", None) >>
    /\ vals = << Entry("temp", Scalar(Elem("float", 215, ""))),
                 Entry("humidity", None) >>

----------------------------------------------------------------------------
(* C3 *)

\* C3: the report is the header line, then the body, then the attribution
\* line; the body holds exactly one line for each element key of the
\* reading whose value (the scalar it carries) is not null and none for
\* the other keys, in strictly ascending order of the element key
\* whatever the key order of the reading.
C3_BodySortedAndNonNull ==
    ReportBuilt =>
        /\ Len(lines) >= 2
        /\ lines[1].kind = "header"
        /\ lines[Len(lines)].kind = "attribution"
        /\ BodyIdx = 2 .. (Len(lines) - 1)
        /\ \A i \in BodyIdx : \E e \in Range(row) : e.k = lines[i].key
        /\ \A e \in Range(row) :
             Cardinality({i \in BodyIdx : lines[i].key = e.k})
                = IF Carried(e.v) = None THEN 0 ELSE 1
        /\ \A i, j \in BodyIdx :
             i < j => StrLess(lines[i].key, lines[j].key)

\* A reading whose keys arrive as wind, temp was reported as temp, wind
C3_Witness ==
    /\ ReportBuilt
    /\ Len(row) >= 2
    /\ row[1].k = "wind" /\ Carried(row[1].v) # None
    /\ row[2].k = "temp" /\ Carried(row[2].v) # None
    /\ lines[2].key = "temp"
    /\ lines[3].key = "wind"

----------------------------------------------------------------------------
(* C10 *)

\* The wind direction of the reading carries scalar x
WindDirectionIs(x) ==
    \E e \in Range(row) : e.k = "windDirection" /\ Carried(e.v) = x

WindLabel == LabelOf(labels, "windDirection")

\* C10 as stated: the wind direction is displayed through a direction name
\* looked up on the code modulo 16, so code 0 reads as north (kita), code
\* 16 reads as code 0 does, and a code that is no integer reads as its
\* literal text.
C10_DirectionNamed ==
    ReportBuilt =>
        /\ WindDirectionIs(Scalar(Elem("int", 0, "")))
             => TextsOf("windDirection") = {"- " \o WindLabel \o ": kita"}
        /\ WindDirectionIs(Scalar(Elem("int", 16, "")))
             => TextsOf("windDirection") = {"- " \o WindLabel \o ": kita"}
        /\ WindDirectionIs(Scalar(Elem("str", 0, "N/A")))
             => TextsOf("windDirection") = {"- " \o WindLabel \o ": N/A"}

\* C10 as amended: the wind direction is displayed as the compass-sector
\* code itself, with no direction name and no reduction modulo 16: code 0
\* reads "0", code 16 reads "16" (not as code 0 does), and a code that is
\* no integer reads as its literal text, without failing.
C10_DirectionCodeShown ==
    ReportBuilt =>
        /\ WindDirectionIs(Scalar(Elem("int", 0, "")))
             => TextsOf("windDirection") = {"- " \o WindLabel \o ": 0"}
        /\ WindDirectionIs(Scalar(Elem("int", 16, "")))
             => TextsOf("windDirection") = {"- " \o WindLabel \o ": 16"}
        /\ WindDirectionIs(Scalar(Elem("str", 0, "N/A")))
             => TextsOf("windDirection") = {"- " \o WindLabel \o ": N/A"}

\* A reading with wind direction code 16 was reported as "- fuukou: 16"
C10_Witness ==
    /\ ReportBuilt
    /\ WindDirectionIs(Scalar(Elem("int", 16, "")))
    /\ "- fuukou: 16" \in TextsOf("windDirection")

----------------------------------------------------------------------------
(* C4 *)

\* C4 as stated: in every run that reaches the notify step, a delivery is
\* attempted to every configured endpoint, whatever becomes of the delivery
\* to the other one.
C4_EveryEndpointAttempted ==
    (Finished /\ ReportBuilt) =>
        /\ Configured(SLACK_WEBHOOK) => Attempted("slack")
        /\ Configured(LINE_TOKEN) => Attempted("line")

----------------------------------------------------------------------------
(* C5 *)

\* C5 as stated: a delivery failure never aborts the run; a run whose
\* fetches, resolution and formatting succeeded does not end in failure.
C5_DeliveryFailureSwallowed == ReportBuilt => pc # "failed"

----------------------------------------------------------------------------
(* C6 *)

\* C6 as stated: when the fetch of the station table, of the latest time or
\* of the point file fails in transport (no response in time, a status
\* outside 2xx, a body that does not parse), the run aborts there: it ends
\* in failure and issues no later request, so no notification either.
C6_FetchFailureAborts ==
    \A i \in DOMAIN http :
        (http[i].req \in {"table", "latest_time", "point"}
            /\ TransportFailed(http[i]))
        => (pc = "failed" /\ i = Len(http))

----------------------------------------------------------------------------
(* C8 *)

----------------------------------------------------------------------------
(* C9 *)

\* C9: a delivery request goes to an endpoint only if that endpoint's
\* credential is configured; with no credential configured, a run that
\* built its report issues no delivery request and ends successfully (it
\* never fails once the report is built).
C9_OnlyConfiguredEndpoints ==
    /\ \A i \in DOMAIN http :
         /\ http[i].req = "slack" => Configured(SLACK_WEBHOOK)
         /\ http[i].req = "line" => Configured(LINE_TOKEN)
    /\ (~Configured(SLACK_WEBHOOK) /\ ~Configured(LINE_TOKEN) /\ ReportBuilt) =>
         /\ Posts = {}
         /\ pc \in {"slack", "line", "done"}

\* A run with no credential built its report and ended successfully with
\* no delivery request
C9_Witness ==
    /\ ~Configured(SLACK_WEBHOOK)
    /\ ~Configured(LINE_TOKEN)
    /\ pc = "done"
    /\ ReportBuilt
    /\ Posts = {}

----------------------------------------------------------------------------
(* C7 *)

\* The keys of the hardcoded fallback table
FallbackKeys == {Fallback[i][1] : i \in DOMAIN Fallback}

\* The fallback table alone
FallbackOnly == [k \in FallbackKeys |->
                    (CHOOSE p \in Range(Fallback) : p[1] = k)[2]]

\* The selector request of the run
SelectorFetch == http[Len(http)]

\* The selector document is none of the two shapes the loader reads
Unrecognized ==
    /\ JsonExc(SelectorFetch) = "none"
    /\ ~(sel.shape = "object" /\ sel.hasSelectors)
    /\ sel.shape # "array"

\* C7 as stated: load_elem_labels never raises, whatever the fetch comes
\* back with and whatever the shape of the document or of the elements
\* inside it; the mapping it returns holds every fallback key; a failed
\* fetch or an unrecognized shape gives the fallback table alone.
C7_LabelsNeverRaise ==
    pc # "labels" =>
        /\ pc # "failed"
        /\ FallbackKeys \subseteq DOMAIN labels
        /\ (JsonExc(SelectorFetch) # "none" \/ Unrecognized)
             => labels = FallbackOnly

====
